---- MODULE Spec2Model ----
(***************************************************************************)
(* The quilt command line client (quilt/tools/command.py): one invocation  *)
(* of main at a time, against the credential file, the local package       *)
(* store and the registry.  The registry's answers, the clock, the user's  *)
(* inputs and the moment the process is killed are the environment's       *)
(* choices.                                                                *)
(***************************************************************************)
EXTENDS Integers, Sequences, FiniteSets, TLC

\* ------------------------------------------------------------ bounds
MaxToken == 2
MaxClock == 0
MaxHash == 2
MaxLen == 4
MaxSize == 2
MaxVal == 2

\* ------------------------------------------------- program constants
RefreshWindow == 60
codes_ok == 200
codes_unauthorized == 401

Tokens == 1..MaxToken
Clocks == 0..MaxClock
\* Expiry times around the refresh boundary of every clock value.
Expiries == (RefreshWindow - 1)..(MaxClock + RefreshWindow + 1)
Hashes == 1..MaxHash

\* The credential record {refresh_token, access_token, expires_at}.
AuthRecords == [refresh_token : Tokens, access_token : Tokens, expires_at : Expiries]

\* json.dump writes the record's fields one after the other.
AuthFields(a) == <<a.refresh_token, a.access_token, a.expires_at>>

\* A credential file holds a complete record when all three fields are there.
Complete(content) == Len(content) = 3

\* json.load of a complete file content.
AuthOf(content) ==
    [refresh_token |-> content[1], access_token |-> content[2], expires_at |-> content[3]]

\* No record: auth = None in create_session, no Authorization header.
NoAuth == [refresh_token |-> 0, access_token |-> 0, expires_at |-> 0]

AbsentFile == [exists |-> FALSE, content |-> <<>>, mode |-> "none"]

\* The mode a newly created file gets from the process umask.
CreateModes == {"0644", "0600"}

\* ------------------------------------------------ package identifiers
\* The package arguments tried: owner/name, an empty half, no slash.
PackageArgs == {<<"o", "/", "p">>, <<"o", "/">>, <<"o">>}

\* str.split(sep): the parts between the separators.
RECURSIVE split(_, _)
split(s, sep) ==
    IF \A i \in 1..Len(s) : s[i] # sep
    THEN <<s>>
    ELSE LET i == CHOOSE k \in 1..Len(s) :
                      s[k] = sep /\ \A j \in 1..(k - 1) : s[j] # sep
         IN  <<SubSeq(s, 1, i - 1)>> \o split(SubSeq(s, i + 1, Len(s)), sep)

\* _parse_package without the check that the two parts are not empty.
_parse_package_noempty(name) ==
    LET parts == split(name, "/")
    IN  IF Len(parts) # 2
        THEN [ok |-> FALSE, owner |-> <<>>, pkg |-> <<>>]
        ELSE [ok |-> TRUE, owner |-> parts[1], pkg |-> parts[2]]

\* _parse_package: exactly two non-empty parts, or the command error.
_parse_package(name) ==
    LET parts == split(name, "/")
    IN  IF Len(parts) # 2
        THEN [ok |-> FALSE, owner |-> <<>>, pkg |-> <<>>]
        ELSE IF parts[1] = <<>> \/ parts[2] = <<>>
             THEN [ok |-> FALSE, owner |-> <<>>, pkg |-> <<>>]
             ELSE [ok |-> TRUE, owner |-> parts[1], pkg |-> parts[2]]

Packages == {s \in PackageArgs : _parse_package(s).ok}

\* ------------------------------------------------------- exceptions
NoExc == [type |-> "none", msg |-> "none"]
CommandException(m) == [type |-> "CommandException", msg |-> m]
ConnectionError == [type |-> "ConnectionError", msg |-> "connect"]
ValueError == [type |-> "ValueError", msg |-> "json"]
KeyError(k) == [type |-> "KeyError", msg |-> k]
StoreException == [type |-> "StoreException", msg |-> "store"]

\* ---------------------------------------------------------- responses
Statuses == {200, 304, 401, 500}
Bodies == {"not_json", "json_no_field", "json"}
Responses == [status : Statuses, body : Bodies]

\* requests' Response.ok: no 4xx or 5xx status.
resp_ok(status) == status < 400

Is2xx(status) == status >= 200 /\ status < 300

\* _handle_response, the session's response hook: the exception it raises.
_handle_response(resp) ==
    IF resp.status = codes_unauthorized
    THEN CommandException("relogin")
    ELSE IF ~resp_ok(resp.status)
         THEN IF resp.body = "not_json"
              THEN CommandException("unexpected_failure")
              ELSE IF resp.body = "json_no_field"
                   THEN KeyError("message")
                   ELSE CommandException("server_message")
         ELSE NoExc

\* The answers of the token endpoint: a status and a body that is not JSON,
\* JSON with an error field, JSON lacking a token field, or a full record.
TokenBodies == {"not_json", "error", "json_no_field", "json"}
TokenResponses == [status : {200, 401, 500}, body : TokenBodies]

\* _update_auth without the check of the error field.
update_auth_exc_noerror(resp) ==
    IF resp.status # codes_ok
    THEN CommandException("authentication_error")
    ELSE IF resp.body = "not_json"
         THEN ValueError
         ELSE IF resp.body \in {"error", "json_no_field"}
              THEN KeyError("refresh_token")
              ELSE NoExc

\* _update_auth without the check of the status.
update_auth_exc_nostatus(resp) ==
    IF resp.body = "not_json"
    THEN ValueError
    ELSE IF resp.body = "error"
         THEN CommandException("failed_to_log_in")
         ELSE IF resp.body = "json_no_field"
              THEN KeyError("refresh_token")
              ELSE NoExc

\* _update_auth: the exception it raises for a response, NoExc when it
\* returns the record.
update_auth_exc(resp) ==
    IF resp.status # codes_ok
    THEN CommandException("authentication_error")
    ELSE IF resp.body = "not_json"
         THEN ValueError
         ELSE IF resp.body = "error"
              THEN CommandException("failed_to_log_in")
              ELSE IF resp.body = "json_no_field"
                   THEN KeyError("refresh_token")
                   ELSE NoExc

\* The comparison of line 88 turned around.
needs_refresh_reversed(auth_rec, t) == auth_rec.expires_at > t + RefreshWindow

\* The comparison of line 88 without the minute.
needs_refresh_nowindow(auth_rec, t) == auth_rec.expires_at < t

\* create_session: the access token expires within a minute.
needs_refresh(auth_rec, t) == auth_rec.expires_at < t + RefreshWindow

\* -------------------------------------------------------------- main
Commands ==
    {"login", "logout", "build", "push", "install",
     "access_list", "access_add", "access_remove", "ls", "inspect"}

need_session(c) == c \in {"push", "install", "access_list", "access_add", "access_remove"}

\* What main returns for the exception that reaches its try block:
\* 0, 1, None (the ConnectionError branch has no return), or the exception
\* leaves main ("raised").
main_return(e) ==
    IF e.type = "none" THEN "0"
    ELSE IF e.type = "CommandException" THEN "1"
    ELSE IF e.type = "ConnectionError" THEN "None"
    ELSE "raised"

with_package(c) == c \notin {"login", "logout", "ls"}

\* The session with the refresh token put in the header.
new_session_refresh_token(a) == [open |-> TRUE, bearer |-> a.refresh_token]

\* create_session, lines 101-112: the session and its Authorization header
\* (bearer 0: no header).
new_session(a) == [open |-> TRUE, bearer |-> a.access_token]

NoSession == [open |-> FALSE, bearer |-> 0]

NoResp == [status |-> 0, body |-> "none"]

\* A request as it is logged: what was asked and the token or hash it carries.
Request(r, a) == [req |-> r, arg |-> a]

\* The kind of failure a registry response is: 401, or another 4xx or 5xx
\* status.  A 3xx answer is not counted as one (requests follows it).
resp_failure(resp) ==
    IF resp.status = codes_unauthorized THEN "auth"
    ELSE IF ~resp_ok(resp.status) THEN "remote"
    ELSE "none"

VARIABLES
    pc,            \* position of the running invocation
    cmd,           \* the command main dispatches
    package,       \* the package argument
    authFile,      \* the credential file: exists, content, mode
    refresh_token, \* the argument of _update_auth
    auth,          \* create_session's / login's auth
    authRead,      \* the record create_session read from the file
    now,           \* time.time() as read by create_session
    session,       \* the session and its Authorization bearer token
    net,           \* the requests issued by this invocation, in order
    lastResp,      \* the last response that went through the session hook
    hookExc,       \* what the hook raised for it
    tokenResp,     \* the token endpoint's answer to this invocation
    exc,           \* the exception that ended the invocation
    ret,           \* main's return value
    failure,       \* the kind of failure that arose in this invocation
    store,         \* the local store: package -> content hash, 0 if absent
    store0,        \* the store when the invocation started
    authFile0,     \* the credential file when the invocation started
    savedBefore,   \* the credential file when _save_auth was entered
    tagHash,       \* install: the hash the latest tag resolved to
    metaHash,      \* install: the hash field of the package metadata
    overwrite,     \* install: the answer to the overwrite prompt
    parsed,        \* _parse_package applied to a string on its own
    fwrp,          \* a FileWithReadProgress object and its file
    cmp,           \* make_comparator applied to a predicate
    procs          \* two processes in create_session on one credential file

vars ==
    <<pc, cmd, package, authFile, refresh_token, auth, authRead, now, session,
      net, lastResp, hookExc, tokenResp, exc, ret, failure, store, store0,
      authFile0, savedBefore, tagHash, metaHash, overwrite, parsed, fwrp, cmp,
      procs>>

\* What main and the commands work on.
mainvars ==
    <<pc, cmd, package, authFile, refresh_token, auth, authRead, now, session,
      net, lastResp, hookExc, tokenResp, exc, ret, failure, store, store0,
      authFile0, savedBefore, tagHash, metaHash, overwrite>>

\* The parts of the state grouped by who writes them.
invocation == <<cmd, package, store0, authFile0>>
credentials == <<authFile, refresh_token, auth, authRead, now, tokenResp, savedBefore>>
hook == <<lastResp, hookExc>>
installing == <<tagHash, metaHash, overwrite>>
\* The state of the parts that are looked at on their own.
aside == <<parsed, fwrp, cmp, procs>>

\* A part that is not running.
Off == [pc |-> "off"]

\* Before the first invocation: nothing in memory, nothing in the store.
InitMain ==
    /\ pc = "idle"
    /\ cmd = "none"
    /\ package = <<>>
    /\ refresh_token = 0
    /\ auth = NoAuth
    /\ authRead = NoAuth
    /\ now = 0
    /\ session = NoSession
    /\ net = <<>>
    /\ lastResp = NoResp
    /\ hookExc = NoExc
    /\ tokenResp = NoResp
    /\ exc = NoExc
    /\ ret = "unset"
    /\ failure = "none"
    /\ store = [p \in Packages |-> 0]
    /\ store0 = [p \in Packages |-> 0]
    /\ savedBefore = AbsentFile
    /\ tagHash = 0
    /\ metaHash = 0
    /\ overwrite = "unasked"

Init ==
    /\ InitMain
    /\ authFile = AbsentFile
    /\ authFile0 = AbsentFile
    /\ parsed = Off
    /\ fwrp = Off
    /\ cmp = Off
    /\ procs = Off

\* The invocation ends with exception e (NoExc: the command returned).
Raise(e) == pc' = "done" /\ exc' = e /\ ret' = main_return(e)

Goto(p) == pc' = p /\ UNCHANGED <<exc, ret>>

\* main: argparse picks the command and its arguments, then the session is
\* created if the command needs one.
main ==
    /\ pc = "idle"
    /\ \E c \in Commands, p \in PackageArgs :
         /\ cmd' = c
         /\ package' = IF with_package(c) THEN p ELSE <<>>
         /\ pc' = IF need_session(c) THEN "create_session" ELSE c
    /\ store0' = store
    /\ authFile0' = authFile
    /\ UNCHANGED <<aside, credentials, session, net, hook, exc, ret, failure, store,
                   installing>>

\* The process ends; the next invocation starts with nothing in memory, and
\* finds the credential file and the store as they were left.
exit ==
    /\ pc = "done"
    /\ pc' = "idle"
    /\ cmd' = "none"
    /\ package' = <<>>
    /\ store0' = store
    /\ authFile0' = authFile
    /\ refresh_token' = 0
    /\ auth' = NoAuth
    /\ authRead' = NoAuth
    /\ now' = 0
    /\ session' = NoSession
    /\ net' = <<>>
    /\ lastResp' = NoResp
    /\ hookExc' = NoExc
    /\ tokenResp' = NoResp
    /\ exc' = NoExc
    /\ ret' = "unset"
    /\ failure' = "none"
    /\ savedBefore' = AbsentFile
    /\ tagHash' = 0
    /\ metaHash' = 0
    /\ overwrite' = "unasked"
    /\ UNCHANGED <<aside, authFile, store>>

\* create_session, lines 82-99 and 101-112: read the credential file, decide
\* whether the token must be refreshed, build the session.
create_session ==
    /\ pc = "create_session"
    /\ IF ~authFile.exists
       THEN /\ session' = new_session(NoAuth)
            /\ Goto(cmd)
            /\ UNCHANGED <<auth, authRead, now, refresh_token, failure>>
       ELSE IF ~Complete(authFile.content)
            THEN /\ Raise(ValueError)
                 /\ UNCHANGED <<auth, authRead, now, refresh_token, failure, session>>
            ELSE \E t \in Clocks :
                   LET a == AuthOf(authFile.content)
                   IN  /\ now' = t
                       /\ authRead' = a
                       /\ auth' = a
                       /\ failure' = failure
                       /\ IF needs_refresh(a, t)
                          THEN /\ refresh_token' = a.refresh_token
                               /\ Goto("_update_auth")
                               /\ UNCHANGED session
                          ELSE /\ session' = new_session(a)
                               /\ Goto(cmd)
                               /\ UNCHANGED refresh_token
    /\ UNCHANGED <<aside, invocation, authFile, tokenResp, savedBefore, net, hook, store,
                   installing>>

\* create_session, lines 89-94: a CommandException of _update_auth becomes
\* the command error telling the user to log in again; login lets it through.
update_failed(e) ==
    IF cmd # "login" /\ e.type = "CommandException"
    THEN CommandException("failed_to_update_login_again")
    ELSE e

\* _update_auth: one POST to /api/token with the refresh token.
_update_auth ==
    /\ pc = "_update_auth"
    /\ net' = Append(net, Request("POST /api/token", refresh_token))
    /\ \/ /\ Raise(ConnectionError)
          /\ UNCHANGED <<auth, tokenResp, failure>>
       \/ \E resp \in TokenResponses :
            LET e == update_auth_exc(resp)
            IN  /\ tokenResp' = resp
                /\ IF e # NoExc
                   THEN /\ Raise(update_failed(e))
                        /\ failure' = IF e.type = "CommandException" THEN "auth" ELSE failure
                        /\ UNCHANGED auth
                   ELSE /\ \E a \in AuthRecords : auth' = a
                        /\ Goto("_save_auth")
                        /\ UNCHANGED failure
    /\ UNCHANGED <<aside, invocation, authFile, refresh_token, authRead, now, savedBefore,
                   session, hook, store, installing>>

\* _save_auth, line 61: open(file_path, 'w') creates the file or empties it.
_save_auth ==
    /\ pc = "_save_auth"
    /\ savedBefore' = authFile
    /\ \E m \in CreateModes :
         authFile' = [exists |-> TRUE, content |-> <<>>,
                      mode |-> IF authFile.exists THEN authFile.mode ELSE m]
    /\ Goto("save_chmod")
    /\ UNCHANGED <<aside, invocation, refresh_token, auth, authRead, now, tokenResp, session,
                   net, hook, failure, store, installing>>

\* _save_auth without the chmod.
save_chmod_forgotten ==
    /\ pc = "save_chmod"
    /\ Goto("save_dump")
    /\ UNCHANGED <<aside, invocation, credentials, session, net, hook, failure, store,
                   installing>>

\* _save_auth, line 62: os.chmod to owner read/write.
save_chmod ==
    /\ pc = "save_chmod"
    /\ authFile' = [authFile EXCEPT !.mode = "0600"]
    /\ Goto("save_dump")
    /\ UNCHANGED <<aside, invocation, refresh_token, auth, authRead, now, tokenResp,
                   savedBefore, session, net, hook, failure, store, installing>>

\* _save_auth, line 63: json.dump writes the record piece by piece.
save_dump ==
    /\ pc = "save_dump"
    /\ LET n == Len(authFile.content) + 1
       IN  /\ authFile' = [authFile EXCEPT !.content = Append(@, AuthFields(auth)[n])]
           /\ Goto(IF n = 3 THEN "save_close" ELSE "save_dump")
    /\ UNCHANGED <<aside, invocation, refresh_token, auth, authRead, now, tokenResp,
                   savedBefore, session, net, hook, failure, store, installing>>

\* _save_auth returns: login is done, create_session builds the session.
save_close ==
    /\ pc = "save_close"
    /\ IF cmd = "login"
       THEN Raise(NoExc) /\ UNCHANGED session
       ELSE Goto(cmd) /\ session' = new_session(auth)
    /\ UNCHANGED <<aside, invocation, credentials, net, hook, failure, store, installing>>

\* The process is killed inside _save_auth.
Crash ==
    /\ pc \in {"save_chmod", "save_dump", "save_close"}
    /\ pc' = "done"
    /\ ret' = "killed"
    /\ UNCHANGED <<aside, invocation, credentials, session, net, hook, exc, failure, store,
                   installing>>

\* login, lines 140-147: the code the user types is the refresh token.
login ==
    /\ pc = "login"
    /\ \E code \in Tokens : refresh_token' = code
    /\ Goto("_update_auth")
    /\ UNCHANGED <<aside, invocation, authFile, auth, authRead, now, tokenResp, savedBefore,
                   session, net, hook, failure, store, installing>>

\* logout that leaves the credential file where it is.
logout_keep ==
    /\ pc = "logout"
    /\ Raise(NoExc)
    /\ UNCHANGED <<aside, invocation, credentials, session, net, hook, failure, store,
                   installing>>

\* logout: remove the credential file if it is there.
logout ==
    /\ pc = "logout"
    /\ authFile' = AbsentFile
    /\ Raise(NoExc)
    /\ UNCHANGED <<aside, invocation, refresh_token, auth, authRead, now, tokenResp,
                   savedBefore, session, net, hook, failure, store, installing>>

\* ------------------------------------------------- the local store
\* PackageStore.exists, get_hash.
store_exists(st, p) == st[p] # 0

store_get_hash(st, p) == st[p]

\* PackageStore.install(url, expected): the downloaded content is moved in
\* place only if its digest is the expected hash.
store_install(st, p, digest, expected) ==
    IF digest = expected THEN [st EXCEPT ![p] = digest] ELSE st

\* ------------------------------------------------ registry requests
Continue(p) == IF p = "done" THEN Raise(NoExc) ELSE Goto(p)

\* The first failure of the invocation is the one recorded.
Failed(kind) == failure' = IF failure = "none" THEN kind ELSE failure

\* response.json()[field]: the exception it raises, if any.
json_exc(resp, field) ==
    IF resp.body = "not_json" THEN ValueError
    ELSE IF resp.body = "json_no_field" THEN KeyError(field)
    ELSE NoExc

\* The connection fails: requests raises ConnectionError.
ConnectFails == Raise(ConnectionError) /\ UNCHANGED <<hook, failure>>

\* A response comes back through the session: the hook runs first, then the
\* caller reads field of the JSON body ("" when it reads nothing) and goes on.
Answered(resp, field, next) ==
    /\ lastResp' = resp
    /\ hookExc' = _handle_response(resp)
    /\ Failed(resp_failure(resp))
    /\ IF _handle_response(resp) # NoExc
       THEN Raise(_handle_response(resp))
       ELSE IF field # "" /\ json_exc(resp, field) # NoExc
            THEN Raise(json_exc(resp, field))
            ELSE Continue(next)

\* push with the tag set before the upload.
push_next_tagfirst(step) ==
    IF step = "push_register" THEN "push_tag"
    ELSE IF step = "push_tag" THEN "push_upload"
    ELSE "done"

\* push, lines 184-221: the order of its three requests.
push_next(step) ==
    IF step = "push_register" THEN "push_upload"
    ELSE IF step = "push_upload" THEN "push_tag"
    ELSE "done"

\* push without the check that the package is in the store.
push_nocheck ==
    /\ pc = "push"
    /\ IF ~_parse_package(package).ok
       THEN Raise(CommandException("specify_package")) /\ Failed("parse")
       ELSE Goto("push_register") /\ UNCHANGED failure
    /\ UNCHANGED <<aside, invocation, credentials, session, net, hook, store, installing>>

\* push, lines 174-182: parse the name, look the package up in the store.
push ==
    /\ pc = "push"
    /\ IF ~_parse_package(package).ok
       THEN Raise(CommandException("specify_package")) /\ Failed("parse")
       ELSE IF ~store_exists(store, package)
            THEN Raise(CommandException("not_found")) /\ Failed("store")
            ELSE \/ Goto("push_register") /\ UNCHANGED failure
                 \/ Raise(StoreException) /\ Failed("store")
    /\ UNCHANGED <<aside, invocation, credentials, session, net, hook, store, installing>>

\* push, lines 184-197: register the package, read the upload url.
push_register ==
    /\ pc = "push_register"
    /\ net' = Append(net, Request("PUT /api/package", store_get_hash(store, package)))
    /\ \/ ConnectFails
       \/ \E resp \in Responses : Answered(resp, "upload_url", push_next("push_register"))
    /\ UNCHANGED <<aside, invocation, credentials, session, store, installing>>

\* push, lines 204-208: the raw PUT of the artifact, outside the session.
push_upload ==
    /\ pc = "push_upload"
    /\ net' = Append(net, Request("PUT upload_url", store_get_hash(store, package)))
    /\ \/ Raise(ConnectionError) /\ UNCHANGED failure
       \/ \E status \in Statuses :
            /\ Failed(IF resp_ok(status) THEN "none" ELSE "remote")
            /\ IF ~resp_ok(status)
               THEN Raise(CommandException("upload_failed"))
               ELSE Continue(push_next("push_upload"))
    /\ UNCHANGED <<aside, invocation, credentials, session, hook, store, installing>>

\* push, lines 211-221: set the latest tag to the package hash.
push_tag ==
    /\ pc = "push_tag"
    /\ net' = Append(net, Request("PUT /api/tag", store_get_hash(store, package)))
    /\ \/ ConnectFails
       \/ \E resp \in Responses : Answered(resp, "", push_next("push_tag"))
    /\ UNCHANGED <<aside, invocation, credentials, session, store, installing>>

\* The answers to the overwrite prompt.
Answers == {"y", "Y", "n", ""}

\* The answer compared as typed.
lower_as_typed(a) == a

\* str.lower of an answer.
lower(a) == IF a = "Y" THEN "y" ELSE a

\* install, lines 227-234: parse the name, ask before overwriting.
install ==
    /\ pc = "install"
    /\ IF ~_parse_package(package).ok
       THEN Raise(CommandException("specify_package")) /\ Failed("parse")
                                                        /\ UNCHANGED overwrite
       ELSE /\ UNCHANGED failure
            /\ IF store_exists(store, package)
               THEN \E answer \in Answers :
                      /\ overwrite' = answer
                      /\ IF lower(answer) # "y" THEN Raise(NoExc) ELSE Goto("install_tag")
               ELSE Goto("install_tag") /\ UNCHANGED overwrite
    /\ UNCHANGED <<aside, invocation, credentials, session, net, hook, store, tagHash,
                   metaHash>>

\* install, lines 237-246: resolve the latest tag.
install_tag ==
    /\ pc = "install_tag"
    /\ net' = Append(net, Request("GET /api/tag", 0))
    /\ \/ ConnectFails /\ UNCHANGED tagHash
       \/ \E resp \in Responses :
            /\ Answered(resp, "hash", "install_meta")
            /\ \E h \in Hashes : tagHash' = IF pc' = "install_meta" THEN h ELSE tagHash
    /\ UNCHANGED <<aside, invocation, credentials, session, store, metaHash, overwrite>>

\* install, lines 248-256: fetch the package metadata for that hash.
install_meta ==
    /\ pc = "install_meta"
    /\ net' = Append(net, Request("GET /api/package", tagHash))
    /\ \/ ConnectFails /\ UNCHANGED metaHash
       \/ \E resp \in Responses :
            /\ Answered(resp, "url", "install_store")
            /\ \E h \in Hashes : metaHash' = IF pc' = "install_store" THEN h ELSE metaHash
    /\ UNCHANGED <<aside, invocation, credentials, session, store, tagHash, overwrite>>

\* install handing the store the hash of the tag instead of the metadata's.
install_store_taghash ==
    /\ pc = "install_store"
    /\ \E digest \in Hashes :
         /\ store' = store_install(store, package, digest, tagHash)
         /\ IF digest = tagHash
            THEN Raise(NoExc) /\ UNCHANGED failure
            ELSE Raise(CommandException("failed_to_install")) /\ Failed("store")
    /\ UNCHANGED <<aside, invocation, credentials, session, net, hook, installing>>

\* install, lines 258-261: the store downloads the artifact and checks its
\* digest against the hash the metadata gave.
install_store ==
    /\ pc = "install_store"
    /\ \E digest \in Hashes :
         /\ store' = store_install(store, package, digest, metaHash)
         /\ IF digest = metaHash
            THEN Raise(NoExc) /\ UNCHANGED failure
            ELSE Raise(CommandException("failed_to_install")) /\ Failed("store")
    /\ UNCHANGED <<aside, invocation, credentials, session, net, hook, installing>>

\* access_list, access_add, access_remove: parse the name, one request.
access ==
    /\ pc \in {"access_list", "access_add", "access_remove"}
    /\ IF ~_parse_package(package).ok
       THEN /\ Raise(CommandException("specify_package"))
            /\ Failed("parse")
            /\ UNCHANGED <<net, hook>>
       ELSE /\ net' = Append(net, Request("/api/access", 0))
            /\ \/ ConnectFails
               \/ \E resp \in Responses :
                    Answered(resp, IF pc = "access_list" THEN "users" ELSE "", "done")
    /\ UNCHANGED <<aside, invocation, credentials, session, store, installing>>

\* build: parse the name, build_package puts the package in the store or
\* fails with BuildException.
build ==
    /\ pc = "build"
    /\ IF ~_parse_package(package).ok
       THEN Raise(CommandException("specify_package")) /\ Failed("parse") /\ UNCHANGED store
       ELSE \/ \E h \in Hashes :
                 store' = [store EXCEPT ![package] = h] /\ Raise(NoExc) /\ UNCHANGED failure
            \/ Raise(CommandException("failed_to_build")) /\ UNCHANGED <<store, failure>>
    /\ UNCHANGED <<aside, invocation, credentials, session, net, hook, installing>>

\* ls: print the installed packages.
ls ==
    /\ pc = "ls"
    /\ Raise(NoExc)
    /\ UNCHANGED <<aside, invocation, credentials, session, net, hook, failure, store, installing>>

\* inspect: h5py may be missing; parse the name, look the package up.
inspect ==
    /\ pc = "inspect"
    /\ \/ Raise(CommandException("install_h5py")) /\ UNCHANGED failure
       \/ IF ~_parse_package(package).ok
          THEN Raise(CommandException("specify_package")) /\ Failed("parse")
          ELSE IF ~store_exists(store, package)
               THEN Raise(CommandException("not_found")) /\ Failed("store")
               ELSE Raise(NoExc) /\ UNCHANGED failure
    /\ UNCHANGED <<aside, invocation, credentials, session, net, hook, store, installing>>

Next ==
    \/ main
    \/ exit
    \/ create_session
    \/ _update_auth
    \/ _save_auth
    \/ save_chmod
    \/ save_dump
    \/ save_close
    \/ Crash
    \/ login
    \/ logout
    \/ build
    \/ push
    \/ push_register
    \/ push_upload
    \/ push_tag
    \/ install
    \/ install_tag
    \/ install_meta
    \/ install_store
    \/ access
    \/ ls
    \/ inspect

Spec == Init /\ [][Next]_vars

\* ------------------------------------------------------------ claims
\* The number of token requests this invocation has issued.
TokenPosts == Cardinality({i \in 1..Len(net) : net[i].req = "POST /api/token"})

\* A push of a well-formed package name that the store did not hold has ended.
PushOfMissingEnded ==
    /\ pc = "done"
    /\ cmd = "push"
    /\ _parse_package(package).ok
    /\ ~store_exists(store0, package)

\* C1 as stated: every push of a package the store does not hold fails with
\* the 'not found' error and no network request at all was issued before,
\* whatever the credential record.
C1_NoRequestBeforeNotFound ==
    PushOfMissingEnded => (exc = CommandException("not_found") /\ net = <<>>)

\* C1 amended: a push of a package the store does not hold issues no request
\* of its own; the only request before the failure is the one token refresh
\* create_session sends for a record expiring within 60 seconds, and when
\* create_session returns a session the push fails with 'not found'.
C1_OnlyRefreshBeforeNotFound ==
    PushOfMissingEnded =>
        /\ Len(net) <= 1
        /\ \A i \in 1..Len(net) : net[i].req = "POST /api/token"
        /\ net # <<>> => (authRead # NoAuth /\ needs_refresh(authRead, now))
        /\ session.open => (exc = CommandException("not_found") /\ ret = "1")

C1_Witness ==
    /\ PushOfMissingEnded
    /\ Len(net) = 1
    /\ session.open
    /\ exc = CommandException("not_found")

\* C2 as stated: a process killed inside _save_auth leaves the credential
\* file holding the complete previous record or the complete new record.
C2_SaveIsAtomic ==
    (pc = "done" /\ ret = "killed") =>
        \/ authFile.exists = savedBefore.exists /\ authFile.content = savedBefore.content
        \/ authFile.exists /\ authFile.content = AuthFields(auth)

\* C3: a record expiring within 60 seconds makes create_session send exactly
\* one refresh request, with that record's refresh token; if the answer is
\* not OK or has an error field, create_session fails with the log-in-again
\* error, returns no session and leaves the credential file as it was.
C3_FailedRefreshKeepsRecord ==
    (authRead # NoAuth /\ needs_refresh(authRead, now)) =>
        /\ pc # "_update_auth" =>
               /\ TokenPosts = 1
               /\ net[1] = Request("POST /api/token", authRead.refresh_token)
        /\ (tokenResp # NoResp /\ (tokenResp.status # codes_ok \/ tokenResp.body = "error")) =>
               /\ pc = "done"
               /\ exc = CommandException("failed_to_update_login_again")
               /\ ret = "1"
               /\ ~session.open
               /\ authFile = authFile0

C3_Witness ==
    /\ authRead # NoAuth
    /\ needs_refresh(authRead, now)
    /\ tokenResp.status = codes_ok
    /\ tokenResp.body = "error"
    /\ exc = CommandException("failed_to_update_login_again")
    /\ authFile = authFile0

\* C4: a record expiring more than 60 seconds from now makes create_session
\* send no request and leave the credential file alone, and the session it
\* returns carries the record's access token.
C4_FreshRecordNoRefresh ==
    (authRead # NoAuth /\ authRead.expires_at > now + RefreshWindow) =>
        /\ TokenPosts = 0
        /\ pc = cmd => net = <<>>
        /\ authFile = authFile0
        /\ session = [open |-> TRUE, bearer |-> authRead.access_token]

C4_Witness ==
    /\ pc = cmd
    /\ authRead # NoAuth
    /\ authRead.expires_at > now + RefreshWindow
    /\ session.bearer = authRead.access_token

\* C5 as stated: a bearer token in use was more than 60 seconds from its
\* record's expires_at when create_session returned it, for a record read
\* from disk and for a refreshed one alike.
C5_BearerNeverNearExpiry ==
    session.bearer # 0 => auth.expires_at > now + RefreshWindow

\* C5 amended: a bearer token in use comes from a record read from disk
\* whose expires_at was at least 60 seconds away (the boundary now + 60 is
\* used as is), or from the record the one refresh exchange returned, whose
\* expires_at is not looked at; a record read with expires_at < now + 60 is
\* never used unrefreshed.
C5_BearerFreshOrRefreshed ==
    session.bearer # 0 =>
        /\ session.bearer = auth.access_token
        /\ \/ /\ auth = authRead
              /\ TokenPosts = 0
              /\ auth.expires_at >= now + RefreshWindow
           \/ /\ needs_refresh(authRead, now)
              /\ TokenPosts = 1
              /\ tokenResp = [status |-> codes_ok, body |-> "json"]
              /\ authFile.content = AuthFields(auth)

C5_Witness ==
    /\ session.bearer # 0
    /\ TokenPosts = 1
    /\ auth.expires_at < now + RefreshWindow

\* C6 as stated: the hook raises the re-login error for 401, a command error
\* with the server's message (or the generic one for an unparseable body)
\* for every other non-2xx response, and nothing for 2xx.  It is stated here
\* for the 2xx, 4xx and 5xx responses; the 3xx ones, which the hook lets
\* through for requests to follow, are left aside.
C6_HookTranslatesEveryFailure ==
    (lastResp # NoResp /\ (Is2xx(lastResp.status) \/ ~resp_ok(lastResp.status))) =>
        IF lastResp.status = codes_unauthorized
        THEN hookExc = CommandException("relogin")
        ELSE IF ~Is2xx(lastResp.status)
             THEN hookExc = IF lastResp.body = "not_json"
                            THEN CommandException("unexpected_failure")
                            ELSE CommandException("server_message")
             ELSE hookExc = NoExc

\* C7 as stated: whenever a failure of a recognized kind arose, main caught
\* it and returned 1, and main returned 0 only when none arose.
C7_RecognizedFailuresReturnOne ==
    (pc = "done" /\ ret # "killed") =>
        /\ failure # "none" => ret = "1"
        /\ ret = "0" => failure = "none"

\* C8 as stated: after a connection failure the value main returns is a
\* non-zero exit status (None, like 0, makes the process exit with 0).
C8_ConnectionFailureNonZero ==
    (pc = "done" /\ exc = ConnectionError) => ret \notin {"0", "None"}

\* C9 as stated: the raw PUT of the artifact comes only after the PUT that
\* sets the latest tag.
C9_TagBeforeUpload ==
    \A i \in 1..Len(net) :
        net[i].req = "PUT upload_url" =>
            \E j \in 1..(i - 1) : net[j].req = "PUT /api/tag"

\* C9 amended: the raw PUT of the artifact comes only after the PUT that
\* registers the package, and no PUT of the latest tag comes before it.
C9_UploadAfterRegisterBeforeTag ==
    \A i \in 1..Len(net) :
        net[i].req = "PUT upload_url" =>
            /\ \E j \in 1..(i - 1) : net[j].req = "PUT /api/package"
            /\ \A j \in 1..(i - 1) : net[j].req # "PUT /api/tag"

C9_Witness ==
    /\ cmd = "push"
    /\ \E i \in 1..Len(net) : net[i].req = "PUT upload_url"
    /\ net[Len(net)].req = "PUT /api/tag"

\* An install of a well-formed package name that the store did not hold has
\* returned without error.
InstallOfMissingSucceeded ==
    /\ pc = "done"
    /\ cmd = "install"
    /\ ret = "0"
    /\ _parse_package(package).ok
    /\ ~store_exists(store0, package)

\* C10 as stated: after a successful install of a package that was absent,
\* the store holds it with the hash the latest tag resolved to, whatever
\* hash the package metadata carried.
C10_InstalledHashIsTagHash ==
    InstallOfMissingSucceeded =>
        /\ store_exists(store, package)
        /\ store_get_hash(store, package) = tagHash

\* C10 amended: after a successful install of a package that was absent, the
\* store holds it with the hash field of the package metadata response.
C10_InstalledHashIsMetadataHash ==
    InstallOfMissingSucceeded =>
        /\ store_exists(store, package)
        /\ store_get_hash(store, package) = metaHash

C10_Witness ==
    /\ InstallOfMissingSucceeded
    /\ store_get_hash(store, package) = metaHash
    /\ metaHash # tagHash

\* C12: after logout no credential record exists, whatever was there before,
\* and logout ends without error (with no record it changes nothing); a
\* create_session that finds no record returns a session without an
\* Authorization header and sends no refresh request.
C12_LogoutRemovesRecord ==
    /\ (pc = "done" /\ cmd = "logout") =>
           /\ ~authFile.exists
           /\ authFile = AbsentFile
           /\ exc = NoExc
           /\ ret = "0"
           /\ ~authFile0.exists => authFile = authFile0
    /\ (need_session(cmd) /\ ~authFile0.exists /\ pc # "create_session") =>
           /\ session = [open |-> TRUE, bearer |-> 0]
           /\ TokenPosts = 0
           /\ ~authFile.exists

C12_Witness ==
    /\ pc = "done"
    /\ cmd = "logout"
    /\ Complete(authFile0.content)
    /\ ~authFile.exists

\* C13: login sends one token exchange with the code as refresh token; it
\* writes the credential file only when the exchange succeeded, and then
\* the file holds exactly the returned record; a non-OK status or an error
\* field makes login fail with a command error, the file left as it was.
C13_LoginPersistsExchange ==
    cmd = "login" =>
        /\ pc \notin {"login", "_update_auth"} =>
               net = <<Request("POST /api/token", refresh_token)>>
        /\ (tokenResp # NoResp /\ (tokenResp.status # codes_ok \/ tokenResp.body = "error")) =>
               /\ pc = "done"
               /\ exc.type = "CommandException"
               /\ ret = "1"
               /\ authFile = authFile0
        /\ authFile # authFile0 => tokenResp = [status |-> codes_ok, body |-> "json"]
        /\ (pc = "done" /\ ret = "0") =>
               /\ authFile.exists
               /\ authFile.content = AuthFields(auth)
               /\ auth \in AuthRecords

C13_Witness ==
    /\ cmd = "login"
    /\ pc = "done"
    /\ ret = "0"
    /\ Complete(authFile0.content)
    /\ authFile.content = AuthFields(auth)
    /\ authFile.content # authFile0.content

\* C14: whenever the credential file holds token data, at every step of
\* _save_auth and for a new file as for an existing one, only its owner can
\* read or write it.
C14_TokensOnlyOwnerReadable ==
    authFile.content # <<>> => (authFile.exists /\ authFile.mode = "0600")

C14_Witness ==
    /\ pc = "save_dump"
    /\ ~savedBefore.exists
    /\ Len(authFile.content) = 1
    /\ authFile.mode = "0600"

\* C16: a session create_session returned carries a bearer header exactly
\* when a credential record is on disk, and the bearer token is the
\* access_token of the record on disk, refreshed or not.
C16_BearerIffRecordOnDisk ==
    session.open =>
        /\ session.bearer # 0 <=> authFile.exists
        /\ session.bearer # 0 =>
               /\ Complete(authFile.content)
               /\ session.bearer = AuthOf(authFile.content).access_token

C16_Witness ==
    /\ session.open
    /\ session.bearer # 0
    /\ TokenPosts = 1
    /\ authFile # authFile0
    /\ session.bearer = AuthOf(authFile.content).access_token
    /\ session.bearer # AuthOf(authFile.content).refresh_token

\* The requests sent after create_session's token refresh.
IsCommandRequest(r) == r.req # "POST /api/token"

CommandRequests == SelectSeq(net, IsCommandRequest)

\* C17 as stated: push sets the latest tag only after the registration and
\* the upload came back successful; if the registration or the upload
\* fails, push fails with a command error and the tag is never set.
C17_TagOnlyAfterSuccessfulUpload ==
    cmd = "push" =>
        /\ \A i \in 1..Len(CommandRequests) :
               CommandRequests[i].req = "PUT /api/tag" =>
                   /\ i = 3
                   /\ CommandRequests[1].req = "PUT /api/package"
                   /\ CommandRequests[2].req = "PUT upload_url"
        /\ (/\ pc = "done"
            /\ Len(CommandRequests) = 1
            /\ lastResp # NoResp
            /\ ~resp_ok(lastResp.status)) => exc.type = "CommandException"
        /\ (/\ pc = "done"
            /\ Len(CommandRequests) = 2
            /\ exc # ConnectionError) => exc = CommandException("upload_failed")

\* An install of a well-formed package name, past create_session.
InstallRunning ==
    /\ cmd = "install"
    /\ session.open
    /\ _parse_package(package).ok

\* C18: install of a package that is already there, with an answer other
\* than y or Y, returns without a request of its own and without touching
\* the store; otherwise the latest tag is asked of the registry first, then
\* the package metadata, and only then does the store install.
C18_InstallAsksBeforeOverwriting ==
    InstallRunning =>
        /\ (store_exists(store0, package) /\ overwrite \notin {"unasked", "y", "Y"}) =>
               /\ pc = "done"
               /\ ret = "0"
               /\ CommandRequests = <<>>
               /\ store = store0
        /\ (pc # "install" /\ (~store_exists(store0, package) \/ overwrite \in {"y", "Y"})) =>
               /\ pc # "install_tag" => Len(CommandRequests) >= 1
               /\ Len(CommandRequests) >= 1 => CommandRequests[1].req = "GET /api/tag"
               /\ Len(CommandRequests) >= 2 => CommandRequests[2].req = "GET /api/package"
               /\ pc = "install_store" => Len(CommandRequests) = 2
               /\ store # store0 => Len(CommandRequests) = 2

C18_Witness ==
    /\ InstallRunning
    /\ pc = "done"
    /\ store_exists(store0, package)
    /\ overwrite = "Y"
    /\ store # store0
    /\ Len(CommandRequests) = 2

\* ------------------------------------------- _parse_package on its own
\* The strings _parse_package is tried on.
ParseChars == {"o", "p", "/"}

Strings == UNION {[1..n -> ParseChars] : n \in 0..MaxLen}

ParseInit ==
    /\ InitMain
    /\ authFile = AbsentFile
    /\ authFile0 = AbsentFile
    /\ parsed \in {[pc |-> "call", name |-> s, ok |-> FALSE, owner |-> <<>>,
                    pkg |-> <<>>, exc |-> NoExc] : s \in Strings}
    /\ fwrp = Off
    /\ cmp = Off
    /\ procs = Off

\* A call of _parse_package(name): the pair it returns, or the command error
\* it raises.
call_parse_package ==
    /\ parsed.pc = "call"
    /\ LET r == _parse_package(parsed.name)
       IN  parsed' = [pc |-> "returned", name |-> parsed.name, ok |-> r.ok,
                      owner |-> r.owner, pkg |-> r.pkg,
                      exc |-> IF r.ok THEN NoExc
                              ELSE CommandException("specify_package")]
    /\ UNCHANGED <<mainvars, fwrp, cmp, procs>>

ParseNext == call_parse_package

SpecParse == ParseInit /\ [][ParseNext]_vars

\* The positions of the slashes of a string.
Slashes(s) == {i \in 1..Len(s) : s[i] = "/"}

\* C11: a string with exactly one '/' and two non-empty halves is parsed
\* into (owner, name) with owner + '/' + name the string itself; every other
\* string makes _parse_package fail with the 'Specify package' command error.
C11_ParseSplitsOrFails ==
    parsed.pc = "returned" =>
        LET s == parsed.name
        IN  IF Cardinality(Slashes(s)) = 1 /\ s[1] # "/" /\ s[Len(s)] # "/"
            THEN /\ parsed.ok
                 /\ parsed.exc = NoExc
                 /\ parsed.owner # <<>>
                 /\ parsed.pkg # <<>>
                 /\ parsed.owner \o <<"/">> \o parsed.pkg = s
            ELSE /\ ~parsed.ok
                 /\ parsed.exc = CommandException("specify_package")

C11_Witness ==
    /\ parsed.pc = "returned"
    /\ parsed.ok
    /\ Len(parsed.owner) = 2
    /\ parsed.owner \o <<"/">> \o parsed.pkg = parsed.name

\* ------------------------------------------------ FileWithReadProgress
\* util.py, FileWithReadProgress: the object is built from a path (it opens
\* the file itself) or from a file object of the caller, entered as a
\* context manager, read, and left.
FileInit ==
    /\ InitMain
    /\ authFile = AbsentFile
    /\ authFile0 = AbsentFile
    /\ parsed = Off
    /\ fwrp \in {[pc |-> "__init__", from_path |-> fp, seekable |-> sk, size |-> sz,
                  fd |-> IF fp THEN "unopened" ELSE "open", need_to_close |-> FALSE,
                  progress |-> "none", pos |-> 0, shown |-> 0, exc |-> FALSE] :
                     fp \in BOOLEAN, sk \in BOOLEAN, sz \in 0..MaxSize}
    /\ cmp = Off
    /\ procs = Off

\* __init__, lines 23-28: open the path, or keep the caller's file object.
fwrp_init ==
    /\ fwrp.pc = "__init__"
    /\ IF fwrp.from_path
       THEN \/ fwrp' = [fwrp EXCEPT !.fd = "open", !.need_to_close = TRUE,
                                    !.pc = "init_size"]
            \/ fwrp' = [fwrp EXCEPT !.pc = "failed", !.exc = TRUE]
       ELSE fwrp' = [fwrp EXCEPT !.need_to_close = FALSE, !.pc = "init_size"]
    /\ UNCHANGED <<mainvars, parsed, cmp, procs>>

\* __init__, lines 30-32: seek to the end, tell, seek back; a file that
\* cannot seek (a pipe) raises.
fwrp_init_size ==
    /\ fwrp.pc = "init_size"
    /\ IF fwrp.seekable
       THEN fwrp' = [fwrp EXCEPT !.pc = "init_progress"]
       ELSE fwrp' = [fwrp EXCEPT !.pc = "failed", !.exc = TRUE]
    /\ UNCHANGED <<mainvars, parsed, cmp, procs>>

\* __init__, lines 34-38: the progress bar is made, or tqdm raises.
fwrp_init_progress ==
    /\ fwrp.pc = "init_progress"
    /\ \/ fwrp' = [fwrp EXCEPT !.progress = "open", !.pc = "constructed"]
       \/ fwrp' = [fwrp EXCEPT !.pc = "failed", !.exc = TRUE]
    /\ UNCHANGED <<mainvars, parsed, cmp, procs>>

\* __enter__.
fwrp_enter ==
    /\ fwrp.pc = "constructed"
    /\ fwrp' = [fwrp EXCEPT !.pc = "with"]
    /\ UNCHANGED <<mainvars, parsed, cmp, procs>>

\* The bytes read(n) returns at position pos of a file of that size.
read_len(n, pos, size) ==
    IF n < 0 \/ n > size - pos THEN size - pos ELSE n

\* read, lines 40-44: read from the file, advance the progress bar.
fwrp_read ==
    /\ fwrp.pc = "with"
    /\ \E n \in (-1)..MaxSize :
         LET k == read_len(n, fwrp.pos, fwrp.size)
         IN  fwrp' = [fwrp EXCEPT !.pos = @ + k, !.shown = @ + k]
    /\ UNCHANGED <<mainvars, parsed, cmp, procs>>

\* The with block ends, normally or by an exception.
fwrp_leave ==
    /\ fwrp.pc = "with"
    /\ \E raised \in BOOLEAN : fwrp' = [fwrp EXCEPT !.pc = "__exit__", !.exc = raised]
    /\ UNCHANGED <<mainvars, parsed, cmp, procs>>

\* __exit__ and close, lines 54-64: close the progress bar, and the file if
\* the object opened it.
fwrp_exit ==
    /\ fwrp.pc = "__exit__"
    /\ fwrp' = [fwrp EXCEPT !.progress = "closed",
                            !.fd = IF fwrp.need_to_close THEN "closed" ELSE @,
                            !.pc = "exited"]
    /\ UNCHANGED <<mainvars, parsed, cmp, procs>>

FileNext ==
    \/ fwrp_init
    \/ fwrp_init_size
    \/ fwrp_init_progress
    \/ fwrp_enter
    \/ fwrp_read
    \/ fwrp_leave
    \/ fwrp_exit

SpecFile == FileInit /\ [][FileNext]_vars

\* C19 as stated: a file the object opened itself is closed once the with
\* block is left, normally or by exception, and also when the construction
\* fails after the open; a file object of the caller is never closed; the
\* progress bar is closed when the with block is left.
C19_FileClosedOnEveryPath ==
    /\ (fwrp.from_path /\ fwrp.pc \in {"exited", "failed"}) => fwrp.fd # "open"
    /\ ~fwrp.from_path => fwrp.fd = "open"
    /\ fwrp.pc = "exited" => fwrp.progress = "closed"

\* ------------------------------------------------------ make_comparator
Values == 0..MaxVal

\* The binary predicates make_comparator is tried on.
Predicates == [Values \X Values -> BOOLEAN]

CmpInit ==
    /\ InitMain
    /\ authFile = AbsentFile
    /\ authFile0 = AbsentFile
    /\ parsed = Off
    /\ fwrp = Off
    /\ cmp \in {[pc |-> "make_comparator", func |-> f, result |-> "unset",
                 left |-> 0, right |-> 0, out |-> 0, exc |-> "none"] : f \in Predicates}
    /\ procs = Off

\* compare, lines 84-93: func in one of three senses.
compare(func, left, right) ==
    IF func[left, right] THEN -1
    ELSE IF func[right, left] THEN 1
    ELSE 0

\* make_comparator, lines 79-94: compare is defined, and the function ends;
\* the return of line 94 is inside compare, after its last return, so what
\* make_comparator returns is None.
make_comparator ==
    /\ cmp.pc = "make_comparator"
    /\ cmp' = [cmp EXCEPT !.result = "None", !.pc = "made"]
    /\ UNCHANGED <<mainvars, parsed, fwrp, procs>>

\* The caller applies what make_comparator returned to two values.
call_compare ==
    /\ cmp.pc = "made"
    /\ \E l \in Values, r \in Values :
         IF cmp.result = "None"
         THEN cmp' = [cmp EXCEPT !.left = l, !.right = r, !.exc = "TypeError",
                                 !.pc = "called"]
         ELSE cmp' = [cmp EXCEPT !.left = l, !.right = r,
                                 !.out = compare(cmp.func, l, r), !.pc = "called"]
    /\ UNCHANGED <<mainvars, parsed, fwrp, procs>>

CmpNext ==
    \/ make_comparator
    \/ call_compare

SpecCmp == CmpInit /\ [][CmpNext]_vars

\* C20 as stated: make_comparator(func) returns a comparison function that
\* yields -1 when func(left, right), otherwise 1 when func(right, left),
\* otherwise 0.
C20_ComparatorOrdersByFunc ==
    /\ cmp.pc \in {"made", "called"} => cmp.result = "compare"
    /\ cmp.pc = "called" =>
           /\ cmp.exc = "none"
           /\ cmp.func[cmp.left, cmp.right] => cmp.out = -1
           /\ (~cmp.func[cmp.left, cmp.right] /\ cmp.func[cmp.right, cmp.left]) =>
                  cmp.out = 1
           /\ (~cmp.func[cmp.left, cmp.right] /\ ~cmp.func[cmp.right, cmp.left]) =>
                  cmp.out = 0

\* ------------------------------------------ two processes, one record
\* Two quilt processes run create_session on the same credential file.
\* Each has its own auth, its own session and its own position in the file
\* it opened for writing; the file is shared.
Procs == {1, 2}

\* The records that expire within the refresh window at the start.
ExpiringRecords == {a \in AuthRecords : needs_refresh(a, 0)}

RaceInit ==
    /\ InitMain
    /\ \E a \in ExpiringRecords :
         /\ authFile = [exists |-> TRUE, content |-> AuthFields(a), mode |-> "0600"]
         /\ authFile0 = authFile
    /\ parsed = Off
    /\ fwrp = Off
    /\ cmp = Off
    /\ procs = [p \in Procs |-> [pc |-> "create_session", auth |-> NoAuth,
                                 session |-> NoSession, exc |-> NoExc, off |-> 0]]

\* What main works on, the shared credential file left out.
mainrest ==
    <<pc, cmd, package, refresh_token, auth, authRead, now, session,
      net, lastResp, hookExc, tokenResp, exc, ret, failure, store, store0,
      authFile0, savedBefore, tagHash, metaHash, overwrite>>

\* json.load succeeds on a file that holds three written fields.
Loadable(content) == Complete(content) /\ \A i \in 1..Len(content) : content[i] # 0

\* write at a position of the file: past the end the gap reads as zeros.
write_at(content, n, v) ==
    [i \in 1..(IF Len(content) < n THEN n ELSE Len(content)) |->
        IF i = n THEN v ELSE IF i <= Len(content) THEN content[i] ELSE 0]

\* create_session, lines 83-88: the file exists, it is opened and loaded
\* (ValueError on an empty or partial content, which nothing catches), and
\* the expiry is compared with the clock.
race_load(p) ==
    /\ procs[p].pc = "create_session"
    /\ IF Loadable(authFile.content)
       THEN procs' = [procs EXCEPT ![p].auth = AuthOf(authFile.content),
                          ![p].pc = IF needs_refresh(AuthOf(authFile.content), now)
                                    THEN "_update_auth" ELSE "session"]
       ELSE procs' = [procs EXCEPT ![p].exc = ValueError, ![p].pc = "failed"]
    /\ UNCHANGED <<mainvars, parsed, fwrp, cmp>>

\* create_session, lines 89-94: the exchange answers with a new record, or
\* it fails and the command error is raised again.
race_update_auth(p) ==
    /\ procs[p].pc = "_update_auth"
    /\ \/ \E a \in AuthRecords :
            procs' = [procs EXCEPT ![p].auth = a, ![p].pc = "_save_auth"]
       \/ procs' = [procs EXCEPT ![p].exc = CommandException("update_failed"),
                                 ![p].pc = "failed"]
    /\ UNCHANGED <<mainvars, parsed, fwrp, cmp>>

\* _save_auth, line 61: open(file_path, 'w') truncates the shared file.
race_save_open(p) ==
    /\ procs[p].pc = "_save_auth"
    /\ authFile' = [authFile EXCEPT !.content = <<>>]
    /\ procs' = [procs EXCEPT ![p].off = 0, ![p].pc = "save_chmod"]
    /\ UNCHANGED <<mainrest, parsed, fwrp, cmp>>

\* _save_auth, line 62.
race_save_chmod(p) ==
    /\ procs[p].pc = "save_chmod"
    /\ authFile' = [authFile EXCEPT !.mode = "0600"]
    /\ procs' = [procs EXCEPT ![p].pc = "save_dump"]
    /\ UNCHANGED <<mainrest, parsed, fwrp, cmp>>

\* _save_auth, line 63: json.dump writes the next piece at the position of
\* this process's file object.
race_save_dump(p) ==
    /\ procs[p].pc = "save_dump"
    /\ LET n == procs[p].off + 1
       IN  /\ authFile' = [authFile EXCEPT
                              !.content = write_at(@, n, AuthFields(procs[p].auth)[n])]
           /\ procs' = [procs EXCEPT ![p].off = n,
                                     ![p].pc = IF n = 3 THEN "session" ELSE "save_dump"]
    /\ UNCHANGED <<mainrest, parsed, fwrp, cmp>>

\* create_session, lines 101-112: the session with the bearer header.
race_session(p) ==
    /\ procs[p].pc = "session"
    /\ procs' = [procs EXCEPT ![p].session = new_session(procs[p].auth), ![p].pc = "done"]
    /\ UNCHANGED <<mainvars, parsed, fwrp, cmp>>

RaceNext ==
    \E p \in Procs :
        \/ race_load(p)
        \/ race_update_auth(p)
        \/ race_save_open(p)
        \/ race_save_chmod(p)
        \/ race_save_dump(p)
        \/ race_session(p)

SpecRace == RaceInit /\ [][RaceNext]_vars

\* C15 as stated: neither process reads an empty or partial record, and once
\* both have refreshed, rewritten the file and completed, the file holds
\* the complete record one of them wrote, never a mixture of the two.
C15_LastWriterWins ==
    /\ \A p \in Procs : procs[p].exc.type # "ValueError"
    /\ (\A p \in Procs : procs[p].pc = "done" /\ procs[p].off = 3) =>
           authFile.content \in {AuthFields(procs[p].auth) : p \in Procs}

====
